---- MODULE Spec2Model ----
(***************************************************************************)
(* A model of the NCL circuit builder and step-by-step wavefront simulator *)
(* of src/app.py: the dual-rail signal primitives, the threshold gate      *)
(* thmn and its fixed instances, the circuit held in the session, the      *)
(* editor's handlers (add input, set input value, add gate, add output,    *)
(* load example) and the "Run Step-by-Step Simulation" handler.            *)
(*                                                                         *)
(* Strings the code inspects (gate kinds) are sequences of one-character   *)
(* strings, so that formatting "THm<m>" and parsing it back are computed.  *)
(* Names (dictionary keys) are only compared, and stay TLA+ strings.       *)
(* Python dicts whose iteration order the code relies on (circuit.gates)   *)
(* are sequences; the others (inputs, outputs, state) are functions.       *)
(* The float t advances by 0.5 from 0.0: every value is k/2 exactly, and   *)
(* the model holds k (the number of half units).                           *)
(***************************************************************************)
EXTENDS Integers, Sequences, FiniteSets, TLC

VARIABLES
    inputs,         \* circuit.inputs: name -> Signal
    gates,          \* circuit.gates, in insertion order: sequence of Gate
    outputs,        \* circuit.outputs: output name -> source name
    wave_history,   \* st.session_state.wave_history
    pc,             \* position of the run handler: idle, running, done, raised
    state,          \* the run's local state: name -> Signal
    t,              \* the run's local t, in half units
    changed,        \* the run's local changed
    final_outputs,  \* the run's local final_outputs
    last,           \* the result of the last completed run (observer)
    call            \* one call of thmn: its arguments and its result

vars == <<inputs, gates, outputs, wave_history, pc, state, t, changed,
          final_outputs, last, call>>

circuit == <<inputs, gates, outputs>>
locals == <<state, t, changed, final_outputs>>

-----------------------------------------------------------------------------
(* Bounds of the model *)

\* longest list of source references the editor enters for one gate
MaxRefs == 3
\* largest custom threshold the editor enters (the widget allows 1..8)
MaxM == 1
\* longest signal list handed to a direct call of thmn
MaxLen == 3

-----------------------------------------------------------------------------
(* Signals *)

NULL == <<0, 0>>
DATA1 == <<1, 0>>
DATA0 == <<0, 1>>
QUAD == <<1, 1>>
Signals == {NULL, DATA1, DATA0, QUAD}

encode_dual(s) ==
    CASE s = "NULL" -> <<0, 0>>
      [] s = "DATA1" -> <<1, 0>>
      [] s = "DATA0" -> <<0, 1>>
      [] OTHER -> <<0, 0>>

is_null(sig) == sig = <<0, 0>>

\* is_data taking only DATA1 for data
is_data_strict(sig) == sig = <<1, 0>>

is_data(sig) == sig # <<0, 0>>

-----------------------------------------------------------------------------
(* Threshold gates *)

RECURSIVE CountData(_)
CountData(xs) ==
    IF xs = <<>> THEN 0
    ELSE (IF is_data(Head(xs)) THEN 1 ELSE 0) + CountData(Tail(xs))

\* thmn handing on the first DATA input in place of (1,0)
thmn_forward(xs, m) ==
    IF CountData(xs) >= m /\ CountData(xs) > 0
    THEN xs[CHOOSE i \in 1..Len(xs) :
                is_data(xs[i]) /\ \A j \in 1..(i - 1) : ~is_data(xs[j])]
    ELSE IF CountData(xs) >= m THEN <<1, 0>> ELSE <<0, 0>>

\* thmn firing on exactly m DATA inputs (count == m in place of count >= m)
thmn_exact(xs, m) == IF CountData(xs) = m THEN <<1, 0>> ELSE <<0, 0>>

\* thmn with the comparison count > m in place of count >= m
thmn_strict(xs, m) == IF CountData(xs) > m THEN <<1, 0>> ELSE <<0, 0>>

thmn(xs, m) == IF CountData(xs) >= m THEN <<1, 0>> ELSE <<0, 0>>

th22(a, b) == thmn(<<a, b>>, 2)
th12(a, b) == thmn(<<a, b>>, 1)
th23(a, b, c) == thmn(<<a, b, c>>, 2)

-----------------------------------------------------------------------------
(* Strings: the part of Python's str that the gate kinds use *)

THm == <<"T", "H", "m">>
TH22 == <<"T", "H", "2", "2">>
TH12 == <<"T", "H", "1", "2">>
TH23 == <<"T", "H", "2", "3">>
CUSTOM == <<"C", "U", "S", "T", "O", "M", " ", "-", " ", "T", "H", "m", "n">>

Digits == <<"0", "1", "2", "3", "4", "5", "6", "7", "8", "9">>

\* f"{m}" for an int m >= 0
RECURSIVE str(_)
str(n) ==
    IF n < 10 THEN <<Digits[n + 1]>>
    ELSE str(n \div 10) \o <<Digits[(n % 10) + 1]>>

\* s.startswith(p)
startswith(s, p) == Len(s) >= Len(p) /\ SubSeq(s, 1, Len(p)) = p

\* s.replace(p, ""): every occurrence of p, left to right, is removed
RECURSIVE replace(_, _)
replace(s, p) ==
    IF Len(s) < Len(p) THEN s
    ELSE IF SubSeq(s, 1, Len(p)) = p THEN replace(SubSeq(s, Len(p) + 1, Len(s)), p)
    ELSE <<Head(s)>> \o replace(Tail(s), p)

DigitValue(c) == CHOOSE d \in 0..9 : Digits[d + 1] = c

\* whether int(s) returns (s is a non-empty run of decimal digits) or raises
int_ok(s) == s # <<>> /\ \A i \in 1..Len(s) : \E d \in 1..10 : Digits[d] = s[i]

RECURSIVE int(_)
int(s) ==
    IF Len(s) = 1 THEN DigitValue(s[1])
    ELSE 10 * int(SubSeq(s, 1, Len(s) - 1)) + DigitValue(s[Len(s)])

max(a, b) == IF a >= b THEN a ELSE b

-----------------------------------------------------------------------------
(* Dictionaries *)

EmptyDict == [k \in {} |-> NULL]

\* d[k] = v of a Python dict
Put(d, k, v) == [x \in (DOMAIN d) \cup {k} |-> IF x = k THEN v ELSE d[x]]

Gate(id, kind, ins, delay) == [id |-> id, kind |-> kind, inputs |-> ins, delay |-> delay]

GateIdsOf(gs) == {gs[i].id : i \in 1..Len(gs)}

\* gates[gid] = g of the insertion-ordered dict: an existing key keeps its place
PutGate(gs, g) ==
    IF g.id \in GateIdsOf(gs)
    THEN [i \in 1..Len(gs) |-> IF gs[i].id = g.id THEN g ELSE gs[i]]
    ELSE Append(gs, g)

-----------------------------------------------------------------------------
(* The simulator engine *)

\* the outcome of a call that raises TypeError (a missing positional argument)
TypeError == <<"TypeError">>

\* evaluate_gate reading state_signals[src] without the membership test: a
\* name that is not in the state raises KeyError
KeyError == <<"KeyError">>

evaluate_gate_unguarded(g, state_signals) ==
    IF \E i \in 1..Len(g.inputs) : g.inputs[i] \notin DOMAIN state_signals
    THEN KeyError
    ELSE LET sigs == [i \in 1..Len(g.inputs) |-> state_signals[g.inputs[i]]]
         IN  IF startswith(g.kind, THm)
             THEN LET rest == replace(g.kind, THm)
                      m == IF int_ok(rest) THEN int(rest) ELSE max(1, Len(sigs))
                  IN  thmn(sigs, m)
             ELSE IF g.kind = TH22
             THEN IF Len(sigs) < 2 THEN TypeError ELSE th22(sigs[1], sigs[2])
             ELSE IF g.kind = TH12
             THEN IF Len(sigs) < 2 THEN TypeError ELSE th12(sigs[1], sigs[2])
             ELSE IF g.kind = TH23
             THEN IF Len(sigs) < 3 THEN TypeError ELSE th23(sigs[1], sigs[2], sigs[3])
             ELSE thmn(sigs, 1)

evaluate_gate(g, state_signals) ==
    LET sigs == [i \in 1..Len(g.inputs) |->
                    IF g.inputs[i] \in DOMAIN state_signals
                    THEN state_signals[g.inputs[i]]
                    ELSE <<0, 0>>]
    IN  IF startswith(g.kind, THm)
        THEN LET rest == replace(g.kind, THm)
                 m == IF int_ok(rest) THEN int(rest) ELSE max(1, Len(sigs))
             IN  thmn(sigs, m)
        ELSE IF g.kind = TH22
        THEN IF Len(sigs) < 2 THEN TypeError ELSE th22(sigs[1], sigs[2])
        ELSE IF g.kind = TH12
        THEN IF Len(sigs) < 2 THEN TypeError ELSE th12(sigs[1], sigs[2])
        ELSE IF g.kind = TH23
        THEN IF Len(sigs) < 3 THEN TypeError ELSE th23(sigs[1], sigs[2], sigs[3])
        ELSE thmn(sigs, 1)

\* the hard bound of the loop, in time units, and the number of steps of t
\* in one time unit (t += 0.5)
TimeBound == 20
StepsPerUnit == 2

\* The for loop with every gate evaluated against the state as it was when
\* the pass began, the results written afterwards
EvaluateGatesFromSnapshot(gs, i, st, ch) ==
    LET ids == {gs[j].id : j \in i..Len(gs)}
        gateOf(k) == gs[CHOOSE j \in i..Len(gs) : gs[j].id = k]
        new == [k \in (DOMAIN st) \cup ids |->
                   IF k \in ids THEN evaluate_gate(gateOf(k), st) ELSE st[k]]
    IN  IF \E k \in ids : new[k] = TypeError
        THEN [state |-> st, changed |-> ch, raised |-> TRUE]
        ELSE [state |-> new,
              changed |-> ch \/ \E k \in ids : k \notin DOMAIN st \/ new[k] # st[k],
              raised |-> FALSE]

\* The for loop with prev = state.get(gid, (0,0)): a gate that has no entry
\* yet and evaluates to NULL is not written
RECURSIVE EvaluateGatesPrevNull(_, _, _, _)
EvaluateGatesPrevNull(gs, i, st, ch) ==
    IF i > Len(gs) THEN [state |-> st, changed |-> ch, raised |-> FALSE]
    ELSE LET out_sig == evaluate_gate(gs[i], st)
             prev == IF gs[i].id \in DOMAIN st THEN st[gs[i].id] ELSE <<0, 0>>
         IN  IF out_sig = TypeError
             THEN [state |-> st, changed |-> ch, raised |-> TRUE]
             ELSE IF out_sig # prev
             THEN EvaluateGatesPrevNull(gs, i + 1, Put(st, gs[i].id, out_sig), TRUE)
             ELSE EvaluateGatesPrevNull(gs, i + 1, st, ch)

\* The for loop over circ.gates.items() from gate i on: the state and the
\* changed flag it leaves, and whether evaluate_gate raised on the way.
RECURSIVE EvaluateGates(_, _, _, _)
EvaluateGates(gs, i, st, ch) ==
    IF i > Len(gs) THEN [state |-> st, changed |-> ch, raised |-> FALSE]
    ELSE LET out_sig == evaluate_gate(gs[i], st)
         IN  IF out_sig = TypeError
             THEN [state |-> st, changed |-> ch, raised |-> TRUE]
             ELSE IF gs[i].id \notin DOMAIN st \/ out_sig # st[gs[i].id]
             THEN EvaluateGates(gs, i + 1, Put(st, gs[i].id, out_sig), TRUE)
             ELSE EvaluateGates(gs, i + 1, st, ch)

FinalOutputs(outs, st) ==
    [out \in DOMAIN outs |-> IF outs[out] \in DOMAIN st THEN st[outs[out]] ELSE <<0, 0>>]

-----------------------------------------------------------------------------
(* What the user enters in the editor's widgets *)

\* One gate id, which is also the one input name: the gate's id is an input
\* name once the input is added, and "B" never resolves to anything.
InputNames == {"A"}
GateIds == {"A"}
RefNames == {"A", "B"}
OutputNames == {"OUT"}
Choices == {"NULL", "DATA1", "DATA0", "11(quads)"}
GateKindOptions == {TH22, TH12, TH23, CUSTOM}
\* the slider's value, in tenths of a time unit
Delays == {10}

SeqsUpTo(S, n) == UNION {[1..k -> S] : k \in 0..n}

NoRun == <<>>
NoCall == <<>>

-----------------------------------------------------------------------------
(* The editor's handlers. Each one ends the script run, so the locals of a *)
(* run that came before are gone; the session (circuit, wave_history)      *)
(* stays.                                                                  *)

Rerun ==
    /\ pc # "running"
    /\ pc' = "idle"
    /\ state' = EmptyDict
    /\ t' = 0
    /\ changed' = FALSE
    /\ final_outputs' = EmptyDict
    /\ UNCHANGED <<wave_history, call>>

AddInput(name) ==
    /\ Rerun
    /\ inputs' = Put(inputs, name, <<0, 0>>)
    /\ UNCHANGED <<gates, outputs>>

SetInputValue(name, choice) ==
    /\ Rerun
    /\ name \in DOMAIN inputs
    /\ inputs' = Put(inputs, name,
                     IF choice = "11(quads)" THEN <<1, 1>> ELSE encode_dual(choice))
    /\ UNCHANGED <<gates, outputs>>

AddGate(gid, gkind, m, input_list, gdelay) ==
    /\ Rerun
    /\ LET kindname == IF gkind = CUSTOM THEN THm \o str(m) ELSE gkind
       IN  gates' = PutGate(gates, Gate(gid, kindname, input_list, gdelay))
    /\ UNCHANGED <<inputs, outputs>>

AddOutput(out_name, src) ==
    /\ Rerun
    /\ outputs' = Put(outputs, out_name, src)
    /\ UNCHANGED <<inputs, gates>>

ExampleInputs == [A |-> <<1, 0>>, B |-> <<0, 1>>]
ExampleGates == <<Gate("G1", TH12, <<"A", "B">>, 10), Gate("G2", TH22, <<"A", "B">>, 12)>>
ExampleOutputs == [OUT |-> "G2"]

LoadExample ==
    /\ Rerun
    /\ inputs' = ExampleInputs
    /\ gates' = ExampleGates
    /\ outputs' = ExampleOutputs

-----------------------------------------------------------------------------
(* The handler of "Run Step-by-Step Simulation" *)

\* RunStart without the reset of st.session_state.wave_history
RunStartKeepsHistory ==
    /\ pc # "running"
    /\ pc' = "running"
    /\ state' = [k \in DOMAIN inputs |-> inputs[k]]
    /\ t' = 0
    /\ changed' = TRUE
    /\ wave_history' = wave_history
    /\ final_outputs' = EmptyDict
    /\ UNCHANGED <<circuit, call>>

\* RunStart with the state kept in the session: the inputs are written over
\* the signals the last snapshot holds
RunStartCarriesState ==
    /\ pc # "running"
    /\ pc' = "running"
    /\ LET old == IF wave_history = <<>> THEN EmptyDict
                  ELSE wave_history[Len(wave_history)].signals
       IN  state' = [k \in (DOMAIN old) \cup (DOMAIN inputs) |->
                        IF k \in DOMAIN inputs THEN inputs[k] ELSE old[k]]
    /\ t' = 0
    /\ changed' = TRUE
    /\ wave_history' = <<>>
    /\ final_outputs' = EmptyDict
    /\ UNCHANGED <<circuit, call>>

\* lines 181-187: the state is a copy of the inputs, the timeline is emptied
RunStart ==
    /\ pc # "running"
    /\ pc' = "running"
    /\ state' = [k \in DOMAIN inputs |-> inputs[k]]
    /\ t' = 0
    /\ changed' = TRUE
    /\ wave_history' = <<>>
    /\ final_outputs' = EmptyDict
    /\ UNCHANGED <<circuit, call>>

\* RunPass without changed = False at the head of the loop body
RunPassNoReset ==
    /\ pc = "running"
    /\ changed /\ t < TimeBound * StepsPerUnit
    /\ LET step_snapshot == [time |-> t, signals |-> state]
           r == EvaluateGates(gates, 1, state, changed)
       IN  /\ wave_history' = Append(wave_history, step_snapshot)
           /\ state' = r.state
           /\ changed' = r.changed
           /\ IF r.raised
              THEN pc' = "raised" /\ t' = t
              ELSE pc' = "running" /\ t' = t + 1
    /\ UNCHANGED <<circuit, final_outputs, call>>

\* RunPass with the state being the circuit's inputs dict itself, not a copy
RunPassAliased ==
    /\ pc = "running"
    /\ changed /\ t < TimeBound * StepsPerUnit
    /\ LET step_snapshot == [time |-> t, signals |-> state]
           r == EvaluateGates(gates, 1, state, FALSE)
       IN  /\ wave_history' = Append(wave_history, step_snapshot)
           /\ state' = r.state
           /\ inputs' = r.state
           /\ changed' = r.changed
           /\ IF r.raised
              THEN pc' = "raised" /\ t' = t
              ELSE pc' = "running" /\ t' = t + 1
    /\ UNCHANGED <<gates, outputs, final_outputs, call>>

\* lines 188-201: one turn of the while loop. An exception of evaluate_gate
\* leaves the handler: the snapshot of this turn is in the timeline, the
\* outputs are never computed.
RunPass ==
    /\ pc = "running"
    /\ changed /\ t < TimeBound * StepsPerUnit
    /\ LET step_snapshot == [time |-> t, signals |-> state]
           r == EvaluateGates(gates, 1, state, FALSE)
       IN  /\ wave_history' = Append(wave_history, step_snapshot)
           /\ state' = r.state
           /\ changed' = r.changed
           /\ IF r.raised
              THEN pc' = "raised" /\ t' = t
              ELSE pc' = "running" /\ t' = t + 1
    /\ UNCHANGED <<circuit, final_outputs, call>>

\* line 203, reached when the loop condition fails
RunFinish ==
    /\ pc = "running"
    /\ ~(changed /\ t < TimeBound * StepsPerUnit)
    /\ pc' = "done"
    /\ final_outputs' = FinalOutputs(outputs, state)
    /\ UNCHANGED <<circuit, wave_history, state, t, changed, call>>

\* The observer: what the last completed run returned, and the circuit it ran
\* on, kept when the session leaves the state in which that run ended.
Observe ==
    last' = IF pc = "done"
            THEN [circ |-> circuit, timeline |-> wave_history, outputs |-> final_outputs]
            ELSE last

-----------------------------------------------------------------------------
(* The session, from an empty workspace *)

Init ==
    /\ inputs = EmptyDict
    /\ gates = <<>>
    /\ outputs = EmptyDict
    /\ wave_history = <<>>
    /\ pc = "idle"
    /\ state = EmptyDict
    /\ t = 0
    /\ changed = FALSE
    /\ final_outputs = EmptyDict
    /\ last = NoRun
    /\ call = NoCall

Next ==
    \/ \E name \in InputNames : AddInput(name) /\ UNCHANGED last
    \/ \E name \in InputNames, choice \in Choices :
          SetInputValue(name, choice) /\ UNCHANGED last
    \/ \E gid \in GateIds, gkind \in GateKindOptions, m \in 1..MaxM,
          input_list \in SeqsUpTo(RefNames, MaxRefs), gdelay \in Delays :
          AddGate(gid, gkind, m, input_list, gdelay) /\ UNCHANGED last
    \/ \E out_name \in OutputNames, src \in RefNames :
          AddOutput(out_name, src) /\ UNCHANGED last
    \/ RunStart /\ UNCHANGED last
    \/ RunPass /\ UNCHANGED last
    \/ RunFinish /\ UNCHANGED last

Spec == Init /\ [][Next]_vars

-----------------------------------------------------------------------------
(* Sessions in which a circuit has been built: the circuit is one of a few *)
(* the editor can build, its inputs as Add Input leaves them; the user     *)
(* sets input values, loads the example and runs the simulation, and the   *)
(* observer keeps the last completed run.                                  *)

CircuitInputNames == {"A", "B", "C"}

\* one TH22 gate over two inputs
TH22Circuit ==
    <<[A |-> <<0, 0>>, B |-> <<0, 0>>],
      <<Gate("G", TH22, <<"A", "B">>, 10)>>,
      [OUT |-> "G"]>>

\* three gates whose ids are the input names, each reading the next one
RingCircuit ==
    <<[A |-> <<0, 0>>, B |-> <<0, 0>>, C |-> <<0, 0>>],
      <<Gate("A", THm \o str(1), <<"B">>, 10),
        Gate("B", THm \o str(1), <<"C">>, 10),
        Gate("C", THm \o str(1), <<"A">>, 10)>>,
      [OUT |-> "C"]>>

\* a forward reference (G1 reads G2), a self reference and an unresolved one
ForwardCircuit ==
    <<[A |-> <<0, 0>>, B |-> <<0, 0>>],
      <<Gate("G1", TH22, <<"G2", "A">>, 10),
        Gate("G2", TH12, <<"A", "B">>, 10),
        Gate("G3", THm \o str(2), <<"G3", "G1", "Z">>, 10)>>,
      [OUT |-> "G3"]>>

\* a cycle (G1 and G2 read each other), a self reference, and an output
\* mapped to a name that is neither an input nor a gate
LoopCircuit ==
    <<[A |-> <<0, 0>>, B |-> <<0, 0>>],
      <<Gate("G1", TH22, <<"G2", "A">>, 10),
        Gate("G2", TH12, <<"G1", "B">>, 10),
        Gate("G3", THm \o str(1), <<"G3", "G2">>, 10)>>,
      [OUT |-> "G3", NC |-> "Z"]>>

Circuits == {TH22Circuit, RingCircuit, ForwardCircuit, LoopCircuit}

InitCircuits ==
    /\ \E c \in Circuits : inputs = c[1] /\ gates = c[2] /\ outputs = c[3]
    /\ wave_history = <<>>
    /\ pc = "idle"
    /\ state = EmptyDict
    /\ t = 0
    /\ changed = FALSE
    /\ final_outputs = EmptyDict
    /\ last = NoRun
    /\ call = NoCall

NextCircuits ==
    \/ \E name \in CircuitInputNames, choice \in Choices :
          SetInputValue(name, choice) /\ Observe
    \/ LoadExample /\ Observe
    \/ RunStart /\ Observe
    \/ RunPass /\ Observe
    \/ RunFinish /\ Observe

SpecCircuits == InitCircuits /\ [][NextCircuits]_vars

-----------------------------------------------------------------------------
(* Direct calls of thmn *)

NoResult == <<>>

InitThmn ==
    /\ inputs = EmptyDict
    /\ gates = <<>>
    /\ outputs = EmptyDict
    /\ wave_history = <<>>
    /\ pc = "idle"
    /\ state = EmptyDict
    /\ t = 0
    /\ changed = FALSE
    /\ final_outputs = EmptyDict
    /\ last = NoRun
    /\ call \in [xs : SeqsUpTo(Signals, MaxLen), m : (-1)..(MaxLen + 1), out : {NoResult}]

CallThmn ==
    /\ call.out = NoResult
    /\ call' = [call EXCEPT !.out = thmn(call.xs, call.m)]
    /\ UNCHANGED <<circuit, wave_history, pc, locals, last>>

NextThmn == CallThmn

SpecThmn == InitThmn /\ [][NextThmn]_vars

-----------------------------------------------------------------------------
(* Properties *)

\* C1: for every list of signals drawn from the four pairs (the empty list
\* too) and every integer m, thmn returns (1,0) if and only if the number of
\* inputs different from (0,0) is at least m, and (0,0) otherwise; QUAD
\* counts as DATA, and the empty list gives (0,0) for every m >= 1.
ThmnCountsData ==
    (call # NoCall /\ call.out # NoResult) =>
        LET n == Cardinality({i \in 1..Len(call.xs) : call.xs[i] # <<0, 0>>})
        IN  /\ (call.out = <<1, 0>>) <=> (n >= call.m)
            /\ (n < call.m) => (call.out = <<0, 0>>)
            /\ (call.xs = <<>> /\ call.m >= 1) => (call.out = <<0, 0>>)

\* a call in which QUAD is one of exactly m DATA inputs, and the gate fires
ThmnQuadFires ==
    /\ call # NoCall
    /\ call.xs = <<QUAD, NULL, DATA0>>
    /\ call.m = 2
    /\ call.out = <<1, 0>>


\* C2: a simulation run never raises, whatever circuit the editor built
\* (any gate kind, any number of source references, zero included) and
\* whatever the input values: the run completes.
RunNeverRaises == pc # "raised"

\* C9: a gate of a fixed kind (TH22, TH12, TH23) whose number of source
\* references differs from the kind's arity (2, 2, 3) is refused by Add Gate
\* and is never stored in the circuit.
GatesHaveArity ==
    \A i \in 1..Len(gates) :
        /\ gates[i].kind = TH22 => Len(gates[i].inputs) = 2
        /\ gates[i].kind = TH12 => Len(gates[i].inputs) = 2
        /\ gates[i].kind = TH23 => Len(gates[i].inputs) = 3

\* the state against which gate i is evaluated in a pass that starts from
\* the current state
StateBefore(i) == EvaluateGates(SubSeq(gates, 1, i - 1), 1, state, FALSE).state

WithNull(st, names) ==
    [x \in (DOMAIN st) \cup names |-> IF x \in DOMAIN st THEN st[x] ELSE <<0, 0>>]

RefsOf(g) == {g.inputs[j] : j \in 1..Len(g.inputs)}

\* C5: a source reference that names nothing in the simulation state is
\* evaluated as NULL: in every pass evaluate_gate returns what it would
\* return if the name were in the state with value (0,0), and the missing
\* name makes it raise nothing.
UnresolvedIsNull ==
    pc # "idle" =>
        \A i \in 1..Len(gates) :
            LET st == StateBefore(i)
                out_sig == evaluate_gate(gates[i], st)
            IN  /\ out_sig = evaluate_gate(gates[i], WithNull(st, RefsOf(gates[i])))
                /\ out_sig # KeyError

\* a completed run in which a gate with an unresolved reference fired
UnresolvedEvaluated ==
    /\ pc = "done"
    /\ \E i \in 1..Len(gates) :
          /\ \E j \in 1..Len(gates[i].inputs) : gates[i].inputs[j] \notin DOMAIN state
          /\ gates[i].id \in DOMAIN state
          /\ state[gates[i].id] = <<1, 0>>

\* C8: a simulation run leaves the circuit unchanged: no step of the run
\* changes the inputs (names, values), the gates (names, kinds, source
\* lists, delays, order) or the outputs, also when a gate id is an input
\* name: only the run's state is overwritten.
RunLeavesCircuit ==
    [][(pc = "running" \/ pc' = "running") => circuit' = circuit]_vars

\* a completed run whose state holds, under an input's name, the value of
\* the gate of that name, while the circuit's input keeps its own
GateOverwroteInputInState ==
    /\ pc = "done"
    /\ \E i \in 1..Len(gates) :
          /\ gates[i].id \in DOMAIN inputs
          /\ state[gates[i].id] # inputs[gates[i].id]

GateValues == {<<0, 0>>, <<1, 0>>}

\* C10: every signal in the circuit's inputs, in the simulation state, in
\* every timeline snapshot and in the final outputs is one of (0,0), (1,0),
\* (0,1), (1,1); and every value a gate evaluation wrote is (0,0) or (1,0):
\* once a pass of the run has completed, each gate's entry in the state and
\* in the snapshots taken since is one of these two.
SignalsWellFormed ==
    /\ \A k \in DOMAIN inputs : inputs[k] \in Signals
    /\ \A k \in DOMAIN state : state[k] \in Signals
    /\ \A n \in 1..Len(wave_history) :
          \A k \in DOMAIN wave_history[n].signals : wave_history[n].signals[k] \in Signals
    /\ \A o \in DOMAIN final_outputs : final_outputs[o] \in Signals
    /\ (pc \in {"running", "done"} /\ t >= 1) =>
          \A i \in 1..Len(gates) :
              /\ gates[i].id \in DOMAIN state
              /\ state[gates[i].id] \in GateValues
    /\ pc # "idle" =>
          \A n \in 2..Len(wave_history) : \A i \in 1..Len(gates) :
              /\ gates[i].id \in DOMAIN wave_history[n].signals
              /\ wave_history[n].signals[gates[i].id] \in GateValues

\* a completed run in which a gate named as an input replaced that input's
\* DATA0 or QUAD in the state, and an output was extracted
GateReplacedDualRailInput ==
    /\ pc = "done"
    /\ DOMAIN final_outputs # {}
    /\ \E i \in 1..Len(gates) :
          /\ gates[i].id \in DOMAIN inputs
          /\ inputs[gates[i].id] \in {<<0, 1>>, <<1, 1>>}
          /\ state[gates[i].id] = <<1, 0>>


MaxPasses == TimeBound * StepsPerUnit

\* C3: every run terminates: the loop stops as soon as a full pass over the
\* gates changes no value, or when t reaches 20, whichever comes first; at
\* most 40 passes are executed and the timeline holds at most 40 snapshots,
\* one per pass. Every pass but the last changed a value, and a run that
\* ended did so after a pass that changed nothing or at t = 20.
RunStopsWithinBound ==
    /\ t <= MaxPasses
    /\ Len(wave_history) <= MaxPasses
    /\ pc \in {"running", "done"} =>
          /\ Len(wave_history) = t
          /\ \A n \in 1..(t - 1) : wave_history[n].signals # wave_history[n + 1].signals
          /\ (t >= 1 /\ ~changed) => state = wave_history[t].signals
          /\ (t >= 1 /\ changed) => state # wave_history[t].signals
    /\ pc = "done" => (~changed \/ t = MaxPasses)

\* a run that stopped at t = 20 with its last pass still changing a value
RunHitsBound ==
    /\ pc = "done"
    /\ t = MaxPasses
    /\ changed
    /\ Len(wave_history) = MaxPasses

\* C4: two runs started from the same circuit (same inputs and values, same
\* gates in the same order, same outputs) return equal timelines and equal
\* final outputs, whatever ran before: a run that completes on the circuit
\* of the last completed run returns what that run returned.
RunsAreDeterministic ==
    (pc = "done" /\ last # NoRun /\ last.circ = circuit) =>
        /\ wave_history = last.timeline
        /\ final_outputs = last.outputs

\* a run that changed values has completed on the circuit of the run before
SameCircuitRanTwice ==
    /\ pc = "done"
    /\ last # NoRun
    /\ last.circ = circuit
    /\ Len(wave_history) >= 3

\* C6: for inputs A=(1,0), B=(0,1), gates G1=TH12([A,B]) then G2=TH22([A,B])
\* and output OUT=G2, the timeline has at least 2 snapshots, G1 and G2 are
\* (1,0) in the second snapshot and in every later one, no pass after the
\* first changes a value, and the final output OUT is (1,0).
ExampleSettles ==
    (pc = "done" /\ circuit = <<ExampleInputs, ExampleGates, ExampleOutputs>>) =>
        /\ Len(wave_history) >= 2
        /\ \A n \in 2..Len(wave_history) :
              /\ wave_history[n].signals["G1"] = <<1, 0>>
              /\ wave_history[n].signals["G2"] = <<1, 0>>
              /\ wave_history[n].signals = wave_history[2].signals
        /\ state = wave_history[2].signals
        /\ final_outputs = [OUT |-> <<1, 0>>]

\* the example circuit has been run to the end
ExampleRan ==
    /\ pc = "done"
    /\ circuit = <<ExampleInputs, ExampleGates, ExampleOutputs>>
    /\ wave_history # <<>>

BothInputs(v) == [A |-> v, B |-> v]

\* C7: with one TH22 gate over two inputs, both DATA1, the run reaches gate
\* output DATA1 in its first pass and the pass after it changes nothing;
\* with both inputs set back to NULL the next run ends with gate output
\* NULL, and the gate value of the earlier run is in no snapshot of it.
TH22FiresThenReturnsToNull ==
    (pc = "done" /\ gates = TH22Circuit[2]) =>
        /\ inputs = BothInputs(<<1, 0>>) =>
              /\ Len(wave_history) = 2
              /\ "G" \notin DOMAIN wave_history[1].signals
              /\ wave_history[2].signals["G"] = <<1, 0>>
              /\ state["G"] = <<1, 0>>
              /\ ~changed
        /\ (/\ inputs = BothInputs(<<0, 0>>)
            /\ last # NoRun
            /\ last.circ = <<BothInputs(<<1, 0>>), gates, outputs>>) =>
              /\ "G" \notin DOMAIN wave_history[1].signals
              /\ \A n \in 2..Len(wave_history) : wave_history[n].signals["G"] = <<0, 0>>
              /\ state["G"] = <<0, 0>>
              /\ ~changed

\* the run with both inputs NULL that follows the run with both DATA1
TH22RanAfterReset ==
    /\ pc = "done"
    /\ gates = TH22Circuit[2]
    /\ inputs = BothInputs(<<0, 0>>)
    /\ last # NoRun
    /\ last.circ = <<BothInputs(<<1, 0>>), gates, outputs>>
    /\ last.timeline[2].signals["G"] = <<1, 0>>
    /\ state["G"] = <<0, 0>>


\* the state gate i is evaluated against in a pass that leads from the state
\* old to the state new, if each gate reads what the gates before it in the
\* order wrote in this pass and what the others held before it
SeenBy(i, old, new) ==
    LET earlier == {gates[j].id : j \in 1..(i - 1)}
    IN  [k \in (DOMAIN old) \cup earlier |-> IF k \in earlier THEN new[k] ELSE old[k]]

\* the pairs of states a pass of the current run led from and to
PassesOfRun ==
    {<<wave_history[n].signals, wave_history[n + 1].signals>> :
        n \in 1..(Len(wave_history) - 1)}
    \cup (IF t >= 1 /\ Len(wave_history) = t
          THEN {<<wave_history[t].signals, state>>} ELSE {})

\* C11: within one pass the gates are evaluated in the insertion order of
\* the gates mapping and each result is written into the state at once: a
\* gate's value after the pass is evaluate_gate on the state that holds this
\* pass's values of the gates before it in the order and the previous
\* pass's values of the others, not on the state at the start of the pass.
PassIsInPlaceInOrder ==
    pc \in {"running", "done"} =>
        \A p \in PassesOfRun : \A i \in 1..Len(gates) :
            /\ gates[i].id \in DOMAIN p[2]
            /\ p[2][gates[i].id] = evaluate_gate(gates[i], SeenBy(i, p[1], p[2]))

\* a pass in which a gate took a value other than the one the state at the
\* start of the pass gives it, because it read a gate evaluated before it
LaterGateReadEarlierGate ==
    /\ pc = "done"
    /\ \E p \in PassesOfRun : \E i \in 2..Len(gates) :
          /\ p[2][gates[i].id] # evaluate_gate(gates[i], p[1])
          /\ \E j \in 1..(i - 1) : gates[j].id \in RefsOf(gates[i])


\* C12: when a run stops because a full pass changed no gate value, the
\* final state is a fixed point that the timeline records: the last
\* snapshot's signals equal the final state, every gate has an entry in it,
\* each gate's value equals evaluate_gate applied to that state, and each
\* final output equals the last snapshot's value at its source reference,
\* or (0,0) when the source is absent from it.
FixedPointIsRecorded ==
    (pc = "done" /\ ~changed) =>
        /\ wave_history # <<>>
        /\ LET snap == wave_history[Len(wave_history)].signals
           IN  /\ snap = state
               /\ \A i \in 1..Len(gates) :
                     /\ gates[i].id \in DOMAIN snap
                     /\ snap[gates[i].id] = evaluate_gate(gates[i], snap)
               /\ DOMAIN final_outputs = DOMAIN outputs
               /\ \A out \in DOMAIN outputs :
                     final_outputs[out] =
                        IF outputs[out] \in DOMAIN snap THEN snap[outputs[out]] ELSE <<0, 0>>

\* a run of several gates that settled before the bound, with a gate that
\* fired, a gate that stayed NULL, an output that took a gate's DATA1 and an
\* output whose source names nothing
SettledWithUnresolvedOutput ==
    /\ pc = "done"
    /\ ~changed
    /\ t < MaxPasses
    /\ Len(gates) >= 2
    /\ \E i, j \in 1..Len(gates) :
          state[gates[i].id] = <<1, 0>> /\ state[gates[j].id] = <<0, 0>>
    /\ \E out \in DOMAIN outputs :
          outputs[out] \in DOMAIN state /\ final_outputs[out] = <<1, 0>>
    /\ \E out \in DOMAIN outputs :
          outputs[out] \notin DOMAIN state /\ final_outputs[out] = <<0, 0>>

NoGateIsInput == \A i \in 1..Len(gates) : gates[i].id \notin DOMAIN inputs

\* C13: in a run of a circuit in which no gate id is an input name and no
\* gate evaluation raises, a gate's value never goes from DATA1 back to NULL:
\* a gate that holds (1,0) in one snapshot holds (1,0) in every later
\* snapshot and in the final state, whatever the kinds, thresholds, cycles
\* and self references.
GateStaysData ==
    (pc \in {"running", "done"} /\ NoGateIsInput) =>
        \A i \in 1..Len(gates) : \A n \in 1..Len(wave_history) :
            (/\ gates[i].id \in DOMAIN wave_history[n].signals
             /\ wave_history[n].signals[gates[i].id] = <<1, 0>>) =>
                /\ \A k \in (n + 1)..Len(wave_history) :
                      wave_history[k].signals[gates[i].id] = <<1, 0>>
                /\ state[gates[i].id] = <<1, 0>>

\* a completed run of the circuit with a cycle and a self reference, in
\* which the gates of the cycle and the self-referencing gate fired in the
\* first pass and a later pass changed another gate
GateInCycleHeldData ==
    /\ pc = "done"
    /\ gates = LoopCircuit[2]
    /\ NoGateIsInput
    /\ Len(wave_history) >= 3
    /\ wave_history[2].signals["G2"] = <<1, 0>>
    /\ wave_history[2].signals["G3"] = <<1, 0>>
    /\ wave_history[2].signals["G1"] = <<0, 0>>
    /\ state = [A |-> inputs["A"], B |-> inputs["B"],
                G1 |-> <<1, 0>>, G2 |-> <<1, 0>>, G3 |-> <<1, 0>>]

====
